---- MODULE Spec2Model ----
(***************************************************************************)
(* Reliable data transfer over an unreliable channel: the Packet, the      *)
(* UnreliableChannel and the three engines StopAndWaitRDT, GoBackNRDT and  *)
(* SelectiveRepeatRDT of main.py.                                          *)
(*                                                                         *)
(* An engine runs on several threads: the thread that calls start(), one   *)
(* thread per expired threading.Timer (_on_timeout) and one per delayed    *)
(* delivery.  No handler takes a lock, so threads interleave.  A thread is *)
(* a stack of frames; one step runs the code of the frame on top up to its *)
(* next call of transmit, receive or send.                                 *)
(*                                                                         *)
(* Spec covers every engine on every channel in the schedules in which     *)
(* handlers do not overlap; the Lossless and Loss specifications cover one *)
(* engine on one kind of channel with handlers overlapping; PacketSpec is  *)
(* the checksum of one Packet under the channel's corruption.              *)
(***************************************************************************)
EXTENDS Integers, Sequences, FiniteSets, Bags, TLC

----------------------------------------------------------------------------
(* Bounds of the model *)

\* largest total_packets an engine is constructed with
MaxTotal == 3
\* largest window_size a windowed engine is constructed with
MaxWindow == 2
\* threads that may be running handlers of one engine at the same time
MaxThreads == 2
\* delayed deliveries the channel may hold at the same time
MaxInFlight == 1
\* times the channel may corrupt one and the same Packet object
MaxCorrupt == 1
\* timers expire only while sent_count is below this
MaxSent == 4
\* the windowed engines arm a timer for every unit they send or retransmit,
\* so their timers multiply: they expire only while at most this many are armed
MaxArmed == 2
\* bounds of the inputs of the checksum check
MaxSeq == 3
MaxPayload == 3

----------------------------------------------------------------------------
VARIABLES
  engine,           \* which class the engine is: "SW", "GBN" or "SR"
  loss,             \* UnreliableChannel.loss > 0
  corruption,       \* UnreliableChannel.corruption > 0
  delay,            \* UnreliableChannel.delay > 0
  total_packets,    \* self.total_packets
  window_size,      \* self.window_size (1 for Stop-and-Wait, which has none)
  seq_num,          \* self.seq_num
  ack_received,     \* self.ack_received (windowed engines)
  sent_count,       \* self.sent_count
  received_count,   \* self.received_count
  buffer,           \* self.buffer: dict received_count -> payload
  running,          \* self.running
  pkts,             \* every DATA Packet object created, in creation order
  pending_packet,   \* SW: self.pending_packet (index in pkts, 0 is None)
  pending_packets,  \* GBN: list of indexes in pkts; SR: dict seq -> index
  timer,            \* self.timer: seq -> "Armed" | "Dead" (SW: key 0, absent is None)
  leaked,           \* armed Timer objects self.timer no longer refers to (bag of seq)
  delayed,          \* deliveries the channel has put on a threading.Timer (bag)
  threads,          \* the running threads, each a stack of frames (top first)
  acked,            \* history: indexes in pkts of the units whose ACK the sender accepted
  pkt               \* PacketSpec: a Packet and how often the channel has altered it

engineVars == <<seq_num, ack_received, sent_count, received_count, buffer,
                running, pkts, pending_packet, pending_packets, acked>>
configVars == <<engine, loss, corruption, delay, total_packets, window_size>>
timerVars == <<timer, leaked>>
vars == <<configVars, engineVars, timerVars, delayed, threads, pkt>>

----------------------------------------------------------------------------
(* Packet *)

\* sum(data) % 256; (packet.checksum + 1) % 256
ChecksumModulus == 256

RECURSIVE SumSeq(_)
SumSeq(s) == IF s = <<>> THEN 0 ELSE Head(s) + SumSeq(Tail(s))

\* the bytes of str(n) for an int n
RECURSIVE DecimalBytes(_)
DecimalBytes(n) ==
  IF n < 0 THEN <<45>> \o DecimalBytes(-n)
  ELSE IF n < 10 THEN <<48 + n>>
  ELSE DecimalBytes(n \div 10) \o <<48 + (n % 10)>>

\* the bytes of f"{payload}": payload is None (-1) or f"DATA_{k}" (k)
NoPayload == -1
PayloadBytes(p) ==
  IF p = NoPayload THEN <<78, 111, 110, 101>>
  ELSE <<68, 65, 84, 65, 95>> \o DecimalBytes(p)

\* the bytes of f"{self.type}": "PacketType.DATA" or "PacketType.ACK"
TypeBytes(t) ==
  IF t = "DATA"
  THEN <<80, 97, 99, 107, 101, 116, 84, 121, 112, 101, 46, 68, 65, 84, 65>>
  ELSE <<80, 97, 99, 107, 101, 116, 84, 121, 112, 101, 46, 65, 67, 75>>

\* Packet._compute_checksum
compute_checksum(seq, payload, type) ==
  SumSeq(DecimalBytes(seq) \o PayloadBytes(payload) \o TypeBytes(type)) % ChecksumModulus

\* Packet.__init__
Packet(seq, payload, type) ==
  [seq |-> seq, payload |-> payload, type |-> type,
   checksum |-> compute_checksum(seq, payload, type)]

\* Packet.is_corrupt
is_corrupt(p) == p.checksum # compute_checksum(p.seq, p.payload, p.type)

\* a corruption that adds 2: 128 of them restore the checksum
CorruptChecksumByTwo(c) == (c + 2) % ChecksumModulus

\* the channel's corruption of a Packet: packet.checksum = (packet.checksum + 1) % 256
CorruptChecksum(c) == (c + 1) % ChecksumModulus

----------------------------------------------------------------------------
(* Units in transit and thread frames *)

\* A unit handed to transmit.  A DATA unit is the Packet object pkts[id]: a
\* retransmission and a delayed delivery refer to the same object.  An ACK is
\* an object of its own, made by the receiver and transmitted once.
\* stale: the unit was transmitted by _on_timeout after the sender had
\* accepted its ACK (history, read by no handler).
\* nak: the unit is the ACK the receiver made in answer to a corrupt DATA unit
\* (history, read by no handler).
DataUnit(id, stale) ==
  [type |-> "DATA", id |-> id, seq |-> 0, checksum |-> 0, stale |-> stale,
   nak |-> FALSE]
AckUnit(seq) ==
  [type |-> "ACK", id |-> 0, seq |-> seq,
   checksum |-> Packet(seq, NoPayload, "ACK").checksum, stale |-> FALSE,
   nak |-> FALSE]
\* ack = Packet(1 - self.seq_num, packet_type=PacketType.ACK), for a corrupt unit
AckOfCorrupt(seq) == [AckUnit(seq) EXCEPT !.nak = TRUE]
NoUnit ==
  [type |-> "NONE", id |-> 0, seq |-> 0, checksum |-> 0, stale |-> FALSE,
   nak |-> FALSE]

\* the Packet object a unit is
Obj(m) ==
  IF m.type = "DATA" THEN pkts[m.id]
  ELSE [seq |-> m.seq, payload |-> NoPayload, type |-> "ACK", checksum |-> m.checksum]

Frame(op, m, i, hi) == [op |-> op, msg |-> m, i |-> i, hi |-> hi]

Top(t) == Head(threads[t])
Rest(t) == Tail(threads[t])

\* thread t continues with stack s; a thread whose stack is empty has ended
WithStack(t, s) ==
  IF s = <<>>
  THEN [k \in 1..(Len(threads) - 1) |-> IF k < t THEN threads[k] ELSE threads[k + 1]]
  ELSE [threads EXCEPT ![t] = s]

\* thread t returns from the frame on top
Return(t) == threads' = WithStack(t, Rest(t))
\* thread t replaces the frame on top by the frames fs
Continue(t, fs) == threads' = WithStack(t, fs \o Rest(t))
\* an exception nobody catches ends thread t
Raise(t) == threads' = WithStack(t, <<>>)

IsThread(t) == t \in 1..Len(threads)
At(t, op) == IsThread(t) /\ Top(t).op = op

----------------------------------------------------------------------------
(* threading.Timer *)

ArmedSeqs == {s \in DOMAIN timer : timer[s] = "Armed"} \cup BagToSet(leaked)
ArmedCount == Cardinality({s \in DOMAIN timer : timer[s] = "Armed"}) + BagCardinality(leaked)

\* _start_timer(seq_num): self.timer[seq_num] = Timer(...); .start().  A Timer
\* the entry referred to before is not cancelled: it stays armed.
start_timer(s) ==
  /\ timer' = [k \in DOMAIN timer \cup {s} |-> IF k = s THEN "Armed" ELSE timer[k]]
  /\ leaked' = IF s \in DOMAIN timer /\ timer[s] = "Armed"
               THEN leaked (+) SetToBag({s}) ELSE leaked

\* _stop_timer(seq_num): cancel the Timer the entry refers to and drop the entry
stop_timer(s) ==
  /\ timer' = [k \in DOMAIN timer \ {s} |-> timer[k]]
  /\ UNCHANGED leaked

\* An armed Timer expires: its thread starts _on_timeout(s).
Timeout(s) ==
  /\ Len(threads) < MaxThreads
  /\ sent_count < MaxSent
  /\ engine # "SW" => ArmedCount <= MaxArmed
  /\ s \in ArmedSeqs
  /\ \E tracked \in BOOLEAN :
       IF tracked
       THEN /\ s \in DOMAIN timer /\ timer[s] = "Armed"
            /\ timer' = [timer EXCEPT ![s] = "Dead"]
            /\ UNCHANGED leaked
       ELSE /\ s \in BagToSet(leaked)
            /\ leaked' = leaked (-) SetToBag({s})
            /\ UNCHANGED timer
  /\ threads' = Append(threads, <<Frame("on_timeout", NoUnit, s, 0)>>)
  /\ UNCHANGED <<configVars, engineVars, delayed, pkt>>

----------------------------------------------------------------------------
(* UnreliableChannel.transmit *)

\* how often the channel has corrupted the object of unit m
TimesCorrupted(m) ==
  LET p == Obj(m) IN (p.checksum - compute_checksum(p.seq, p.payload, p.type)) % 256

\* if random.random() < self.corruption: packet.checksum = (packet.checksum + 1) % 256
\* c: the outcome of the draw.  Gives the unit to deliver.
Corrupted(m, c) ==
  IF c /\ m.type = "ACK" THEN [m EXCEPT !.checksum = CorruptChecksum(@)] ELSE m
CorruptObject(m, c) ==
  IF c /\ m.type = "DATA"
  THEN pkts' = [pkts EXCEPT ![m.id].checksum = CorruptChecksum(@)]
  ELSE pkts' = pkts
CorruptionDraws(m) ==
  {FALSE} \cup {c \in {TRUE} : corruption /\ TimesCorrupted(m) < MaxCorrupt}

\* if random.random() < self.loss: return
TransmitDrop(t) ==
  /\ At(t, "transmit")
  /\ loss
  /\ Return(t)
  /\ UNCHANGED <<configVars, engineVars, timerVars, delayed, pkt>>

\* else: receiver_callback(packet), on the calling thread
TransmitDeliver(t) ==
  /\ At(t, "transmit")
  /\ \E c \in CorruptionDraws(Top(t).msg) :
       /\ CorruptObject(Top(t).msg, c)
       /\ Continue(t, <<Frame("receive", Corrupted(Top(t).msg, c), 0, 0)>>)
  /\ UNCHANGED <<configVars, seq_num, ack_received, sent_count, received_count,
                 buffer, running, pending_packet, pending_packets, acked,
                 timerVars, delayed, pkt>>

\* if random.random() < self.delay: threading.Timer(delay_time, ...).start()
TransmitDelay(t) ==
  /\ At(t, "transmit")
  /\ delay
  /\ BagCardinality(delayed) < MaxInFlight
  /\ \E c \in CorruptionDraws(Top(t).msg) :
       /\ CorruptObject(Top(t).msg, c)
       /\ delayed' = delayed (+) SetToBag({Corrupted(Top(t).msg, c)})
  /\ Return(t)
  /\ UNCHANGED <<configVars, seq_num, ack_received, sent_count, received_count,
                 buffer, running, pending_packet, pending_packets, acked,
                 timerVars, pkt>>

\* the Timer of a delayed delivery expires: its thread calls receiver_callback(packet)
DeliverDelayed(m) ==
  /\ m \in BagToSet(delayed)
  /\ Len(threads) < MaxThreads
  /\ delayed' = delayed (-) SetToBag({m})
  /\ threads' = Append(threads, <<Frame("receive", m, 0, 0)>>)
  /\ UNCHANGED <<configVars, engineVars, timerVars, pkt>>

----------------------------------------------------------------------------
(* The delivered data *)

\* get_data: [self.buffer[i] for i in sorted(self.buffer)]
RECURSIVE SortedValues(_, _)
SortedValues(d, keys) ==
  IF keys = {} THEN <<>>
  ELSE LET k == CHOOSE x \in keys : \A y \in keys : x <= y
       IN <<d[k]>> \o SortedValues(d, keys \ {k})
get_data == SortedValues(buffer, DOMAIN buffer)

\* self.buffer[self.received_count] = packet.payload
BufferPut(payload) ==
  [k \in DOMAIN buffer \cup {received_count} |->
     IF k = received_count THEN payload ELSE buffer[k]]

\* the payloads sent: DATA_0 .. DATA_{N-1}
Expected == [k \in 1..total_packets |-> k - 1]

----------------------------------------------------------------------------
(* StopAndWaitRDT *)

\* start: self.running = True; self.send()
start(t) ==
  /\ At(t, "start")
  /\ running' = TRUE
  /\ Continue(t, <<Frame("send", NoUnit, 0, 0)>>)
  /\ UNCHANGED <<configVars, seq_num, ack_received, sent_count, received_count,
                 buffer, pkts, pending_packet, pending_packets, acked,
                 timerVars, delayed, pkt>>

\* send, up to its call of transmit
SW_send(t) ==
  /\ engine = "SW"
  /\ At(t, "send")
  /\ IF sent_count >= total_packets
     THEN /\ running' = FALSE
          /\ Return(t)
          /\ UNCHANGED <<pkts, pending_packet>>
     ELSE /\ pkts' = Append(pkts, Packet(seq_num, sent_count, "DATA"))
          /\ pending_packet' = Len(pkts) + 1
          /\ Continue(t, <<Frame("transmit", DataUnit(Len(pkts) + 1, FALSE), 0, 0),
                           Frame("send_timer", NoUnit, 0, 0)>>)
          /\ UNCHANGED running
  /\ UNCHANGED <<configVars, seq_num, ack_received, sent_count, received_count,
                 buffer, pending_packets, acked, timerVars, delayed, pkt>>

\* send, after transmit has returned: self._start_timer()
SW_send_timer(t) ==
  /\ engine = "SW"
  /\ At(t, "send_timer")
  /\ start_timer(0)
  /\ Return(t)
  /\ UNCHANGED <<configVars, engineVars, delayed, pkt>>

\* _on_timeout, up to its call of transmit
SW_on_timeout(t) ==
  /\ engine = "SW"
  /\ At(t, "on_timeout")
  /\ IF pending_packet = 0
     THEN Raise(t)
     ELSE Continue(t, <<Frame("transmit",
                              DataUnit(pending_packet, pending_packet \in acked), 0, 0),
                        Frame("timeout_timer", NoUnit, 0, 0)>>)
  /\ UNCHANGED <<configVars, engineVars, timerVars, delayed, pkt>>

\* _on_timeout, after transmit has returned: self._start_timer()
SW_timeout_timer(t) ==
  /\ engine = "SW"
  /\ At(t, "timeout_timer")
  /\ start_timer(0)
  /\ Return(t)
  /\ UNCHANGED <<configVars, engineVars, delayed, pkt>>

\* a receiver that does not compare the sequence number
SW_accepts_any(p) == TRUE

\* elif packet.seq == self.seq_num
SW_accepts(p) == p.seq = seq_num

\* receive of a DATA unit: _receiver, up to its call of transmit
SW_receiver(t) ==
  /\ engine = "SW"
  /\ At(t, "receive")
  /\ Top(t).msg.type = "DATA"
  /\ LET p == Obj(Top(t).msg) IN
       IF is_corrupt(p)
       THEN /\ Continue(t, <<Frame("transmit", AckOfCorrupt(1 - seq_num), 0, 0)>>)
            /\ UNCHANGED <<buffer, received_count, seq_num>>
       ELSE IF SW_accepts(p)
       THEN /\ buffer' = BufferPut(p.payload)
            /\ received_count' = received_count + 1
            /\ seq_num' = 1 - seq_num
            /\ Continue(t, <<Frame("transmit", AckUnit(p.seq), 0, 0)>>)
       ELSE /\ Continue(t, <<Frame("transmit", AckUnit(p.seq), 0, 0)>>)
            /\ UNCHANGED <<buffer, received_count, seq_num>>
  /\ UNCHANGED <<configVars, ack_received, sent_count, running, pkts,
                 pending_packet, pending_packets, acked, timerVars, delayed, pkt>>

\* if ack.seq == self.pending_packet.seq
SW_ack_matches(a) == a.seq = pkts[pending_packet].seq

\* receive of an ACK unit: _ack_handler, up to its call of send
SW_ack_handler(t) ==
  /\ engine = "SW"
  /\ At(t, "receive")
  /\ Top(t).msg.type = "ACK"
  /\ LET a == Obj(Top(t).msg) IN
       IF is_corrupt(a)
       THEN /\ Return(t)
            /\ UNCHANGED <<sent_count, acked, timerVars>>
       ELSE IF pending_packet = 0
       THEN /\ Raise(t)
            /\ UNCHANGED <<sent_count, acked, timerVars>>
       ELSE IF SW_ack_matches(a)
       THEN /\ stop_timer(0)
            /\ sent_count' = sent_count + 1
            /\ acked' = acked \cup {pending_packet}
            /\ Continue(t, <<Frame("send", NoUnit, 0, 0)>>)
       ELSE /\ Return(t)
            /\ UNCHANGED <<sent_count, acked, timerVars>>
  /\ UNCHANGED <<configVars, seq_num, ack_received, received_count, buffer,
                 running, pkts, pending_packet, pending_packets, delayed, pkt>>

\* the steps of a thread of a Stop-and-Wait engine, the channel's outcome aside
SW_step(t) ==
  \/ start(t)
  \/ SW_send(t)
  \/ SW_send_timer(t)
  \/ SW_on_timeout(t)
  \/ SW_timeout_timer(t)
  \/ SW_receiver(t)
  \/ SW_ack_handler(t)

----------------------------------------------------------------------------
(* GoBackNRDT *)

\* the units of pkts that carry sequence number s
UnitsWithSeq(s) == {k \in 1..Len(pkts) : pkts[k].seq = s}

\* send: one pass of "for i in range(self.window_size)" from index i on, up to
\* the next call of transmit; after the last pass self.seq_num += self.window_size
GBN_send_from(t, i) ==
  IF i < window_size /\ sent_count + i < total_packets
  THEN /\ pkts' = Append(pkts, Packet(seq_num + i, sent_count + i, "DATA"))
       /\ pending_packets' = Append(pending_packets, Len(pkts) + 1)
       /\ Continue(t, <<Frame("transmit", DataUnit(Len(pkts) + 1, FALSE), 0, 0),
                        Frame("send_timer", NoUnit, i, 0)>>)
       /\ UNCHANGED seq_num
  ELSE /\ seq_num' = seq_num + window_size
       /\ Return(t)
       /\ UNCHANGED <<pkts, pending_packets>>

\* send, up to its first call of transmit
GBN_send(t) ==
  /\ engine = "GBN"
  /\ At(t, "send")
  /\ IF sent_count >= total_packets
     THEN /\ running' = FALSE
          /\ Return(t)
          /\ UNCHANGED <<pkts, pending_packets, seq_num>>
     ELSE /\ GBN_send_from(t, 0)
          /\ UNCHANGED running
  /\ UNCHANGED <<configVars, ack_received, sent_count, received_count, buffer,
                 pending_packet, acked, timerVars, delayed, pkt>>

\* send, after transmit has returned: self._start_timer(self.seq_num + i), then
\* the next pass of the loop
GBN_send_timer(t) ==
  /\ engine = "GBN"
  /\ At(t, "send_timer")
  /\ start_timer(seq_num + Top(t).i)
  /\ GBN_send_from(t, Top(t).i + 1)
  /\ UNCHANGED <<configVars, ack_received, sent_count, received_count, buffer,
                 running, pending_packet, acked, delayed, pkt>>

\* _on_timeout: one pass of "for i in range(self.seq_num, min(...))" at index i
\* of a range that ends at hi, up to the call of transmit.  pending_packets is a
\* list: an index past its end raises IndexError.
GBN_retransmit_from(t, i, hi) ==
  IF i >= hi THEN Return(t)
  ELSE IF (i % window_size) + 1 > Len(pending_packets) THEN Raise(t)
  ELSE LET id == pending_packets[(i % window_size) + 1] IN
       Continue(t, <<Frame("transmit", DataUnit(id, id \in acked), 0, 0),
                     Frame("timeout_timer", NoUnit, i, hi)>>)

\* min(self.seq_num + self.window_size, self.total_packets)
GBN_timeout_end ==
  IF seq_num + window_size < total_packets THEN seq_num + window_size ELSE total_packets

\* _on_timeout, up to its first call of transmit
GBN_on_timeout(t) ==
  /\ engine = "GBN"
  /\ At(t, "on_timeout")
  /\ GBN_retransmit_from(t, seq_num, GBN_timeout_end)
  /\ UNCHANGED <<configVars, engineVars, timerVars, delayed, pkt>>

\* _on_timeout, after transmit has returned: self._start_timer(i), then the
\* next pass of the loop
GBN_timeout_timer(t) ==
  /\ engine = "GBN"
  /\ At(t, "timeout_timer")
  /\ start_timer(Top(t).i)
  /\ GBN_retransmit_from(t, Top(t).i + 1, Top(t).hi)
  /\ UNCHANGED <<configVars, engineVars, delayed, pkt>>

\* a receiver that does not compare the sequence number
GBN_accepts_any(p) == TRUE

\* elif packet.seq == self.ack_received
GBN_accepts(p) == p.seq = ack_received

\* receive of a DATA unit: _receiver, up to its call of transmit
GBN_receiver(t) ==
  /\ engine = "GBN"
  /\ At(t, "receive")
  /\ Top(t).msg.type = "DATA"
  /\ LET p == Obj(Top(t).msg) IN
       IF is_corrupt(p)
       THEN /\ Continue(t, <<Frame("transmit", AckOfCorrupt(1 - seq_num), 0, 0)>>)
            /\ UNCHANGED <<buffer, received_count, ack_received>>
       ELSE IF GBN_accepts(p)
       THEN /\ buffer' = BufferPut(p.payload)
            /\ received_count' = received_count + 1
            /\ ack_received' = ack_received + 1
            /\ Continue(t, <<Frame("transmit", AckUnit(p.seq), 0, 0)>>)
       ELSE /\ Continue(t, <<Frame("transmit", AckUnit(p.seq), 0, 0)>>)
            /\ UNCHANGED <<buffer, received_count, ack_received>>
  /\ UNCHANGED <<configVars, seq_num, sent_count, running, pkts,
                 pending_packet, pending_packets, acked, timerVars, delayed, pkt>>

\* if ack.seq >= self.seq_num - self.window_size and ack.seq < self.seq_num
GBN_ack_in_window(a) == a.seq >= seq_num - window_size /\ a.seq < seq_num

\* receive of an ACK unit: _ack_handler, up to its call of send
GBN_ack_handler(t) ==
  /\ engine = "GBN"
  /\ At(t, "receive")
  /\ Top(t).msg.type = "ACK"
  /\ LET a == Obj(Top(t).msg) IN
       IF ~is_corrupt(a) /\ GBN_ack_in_window(a)
       THEN /\ stop_timer(a.seq)
            /\ sent_count' = sent_count + 1
            /\ acked' = acked \cup UnitsWithSeq(a.seq)
            /\ IF sent_count + 1 < total_packets
               THEN Continue(t, <<Frame("send", NoUnit, 0, 0)>>)
               ELSE Return(t)
       ELSE /\ Return(t)
            /\ UNCHANGED <<sent_count, acked, timerVars>>
  /\ UNCHANGED <<configVars, seq_num, ack_received, received_count, buffer,
                 running, pkts, pending_packet, pending_packets, delayed, pkt>>

\* the steps of a thread of a Go-Back-N engine, the channel's outcome aside
GBN_step(t) ==
  \/ start(t)
  \/ GBN_send(t)
  \/ GBN_send_timer(t)
  \/ GBN_on_timeout(t)
  \/ GBN_timeout_timer(t)
  \/ GBN_receiver(t)
  \/ GBN_ack_handler(t)

----------------------------------------------------------------------------
(* SelectiveRepeatRDT *)

\* self.pending_packets[seq] = packet
PendingPut(seq, id) ==
  [k \in DOMAIN pending_packets \cup {seq} |->
     IF k = seq THEN id ELSE pending_packets[k]]

\* send: one pass of "for i in range(self.window_size)" from index i on, up to
\* the next call of transmit; after the last pass self.seq_num += self.window_size
SR_send_from(t, i) ==
  IF i < window_size /\ sent_count + i < total_packets
  THEN /\ pkts' = Append(pkts, Packet(seq_num + i, sent_count + i, "DATA"))
       /\ pending_packets' = PendingPut(seq_num + i, Len(pkts) + 1)
       /\ Continue(t, <<Frame("transmit", DataUnit(Len(pkts) + 1, FALSE), 0, 0),
                        Frame("send_timer", NoUnit, i, 0)>>)
       /\ UNCHANGED seq_num
  ELSE /\ seq_num' = seq_num + window_size
       /\ Return(t)
       /\ UNCHANGED <<pkts, pending_packets>>

\* send, up to its first call of transmit
SR_send(t) ==
  /\ engine = "SR"
  /\ At(t, "send")
  /\ IF sent_count >= total_packets
     THEN /\ running' = FALSE
          /\ Return(t)
          /\ UNCHANGED <<pkts, pending_packets, seq_num>>
     ELSE /\ SR_send_from(t, 0)
          /\ UNCHANGED running
  /\ UNCHANGED <<configVars, ack_received, sent_count, received_count, buffer,
                 pending_packet, acked, timerVars, delayed, pkt>>

\* send, after transmit has returned: self._start_timer(self.seq_num + i), then
\* the next pass of the loop
SR_send_timer(t) ==
  /\ engine = "SR"
  /\ At(t, "send_timer")
  /\ start_timer(seq_num + Top(t).i)
  /\ SR_send_from(t, Top(t).i + 1)
  /\ UNCHANGED <<configVars, ack_received, sent_count, received_count, buffer,
                 running, pending_packet, acked, delayed, pkt>>

\* _on_timeout(seq_num), up to its call of transmit.  pending_packets is a
\* dict: a key it does not hold raises KeyError.
SR_on_timeout(t) ==
  /\ engine = "SR"
  /\ At(t, "on_timeout")
  /\ IF Top(t).i \notin DOMAIN pending_packets
     THEN Raise(t)
     ELSE LET id == pending_packets[Top(t).i] IN
          Continue(t, <<Frame("transmit", DataUnit(id, id \in acked), 0, 0),
                        Frame("timeout_timer", NoUnit, Top(t).i, 0)>>)
  /\ UNCHANGED <<configVars, engineVars, timerVars, delayed, pkt>>

\* _on_timeout(seq_num), after transmit has returned: self._start_timer(seq_num)
SR_timeout_timer(t) ==
  /\ engine = "SR"
  /\ At(t, "timeout_timer")
  /\ start_timer(Top(t).i)
  /\ Return(t)
  /\ UNCHANGED <<configVars, engineVars, delayed, pkt>>

\* elif packet.seq == self.ack_received
SR_accepts(p) == p.seq = ack_received

\* receive of a DATA unit: _receiver, up to its call of transmit
SR_receiver(t) ==
  /\ engine = "SR"
  /\ At(t, "receive")
  /\ Top(t).msg.type = "DATA"
  /\ LET p == Obj(Top(t).msg) IN
       IF is_corrupt(p)
       THEN /\ Continue(t, <<Frame("transmit", AckOfCorrupt(1 - seq_num), 0, 0)>>)
            /\ UNCHANGED <<buffer, received_count, ack_received>>
       ELSE IF SR_accepts(p)
       THEN /\ buffer' = BufferPut(p.payload)
            /\ received_count' = received_count + 1
            /\ ack_received' = ack_received + 1
            /\ Continue(t, <<Frame("transmit", AckUnit(p.seq), 0, 0)>>)
       ELSE /\ Continue(t, <<Frame("transmit", AckUnit(p.seq), 0, 0)>>)
            /\ UNCHANGED <<buffer, received_count, ack_received>>
  /\ UNCHANGED <<configVars, seq_num, sent_count, running, pkts,
                 pending_packet, pending_packets, acked, timerVars, delayed, pkt>>

\* if ack.seq in self.pending_packets
SR_ack_pending(a) == a.seq \in DOMAIN pending_packets

\* receive of an ACK unit: _ack_handler, up to its call of send
SR_ack_handler(t) ==
  /\ engine = "SR"
  /\ At(t, "receive")
  /\ Top(t).msg.type = "ACK"
  /\ LET a == Obj(Top(t).msg) IN
       IF ~is_corrupt(a) /\ SR_ack_pending(a)
       THEN /\ stop_timer(a.seq)
            /\ sent_count' = sent_count + 1
            /\ acked' = acked \cup {pending_packets[a.seq]}
            /\ IF sent_count + 1 < total_packets
               THEN Continue(t, <<Frame("send", NoUnit, 0, 0)>>)
               ELSE Return(t)
       ELSE /\ Return(t)
            /\ UNCHANGED <<sent_count, acked, timerVars>>
  /\ UNCHANGED <<configVars, seq_num, ack_received, received_count, buffer,
                 running, pkts, pending_packet, pending_packets, delayed, pkt>>

\* the steps of a thread of a Selective-Repeat engine, the channel's outcome aside
SR_step(t) ==
  \/ start(t)
  \/ SR_send(t)
  \/ SR_send_timer(t)
  \/ SR_on_timeout(t)
  \/ SR_timeout_timer(t)
  \/ SR_receiver(t)
  \/ SR_ack_handler(t)

----------------------------------------------------------------------------
(* Specifications *)

ThreadIds == 1..MaxThreads

\* the state after construction, the caller about to call start()
InitEngine(engines, losses, corruptions, delays) ==
  /\ engine \in engines
  /\ loss \in losses
  /\ corruption \in corruptions
  /\ delay \in delays
  /\ total_packets \in 1..MaxTotal
  /\ window_size \in (IF engine = "SW" THEN {1} ELSE 1..MaxWindow)
  /\ seq_num = 0
  /\ ack_received = 0
  /\ sent_count = 0
  /\ received_count = 0
  /\ buffer = <<>>
  /\ running = FALSE
  /\ pkts = <<>>
  /\ pending_packet = 0
  /\ pending_packets = <<>>
  /\ timer = <<>>
  /\ leaked = EmptyBag
  /\ delayed = EmptyBag
  /\ threads = << <<Frame("start", NoUnit, 0, 0)>> >>
  /\ acked = {}
  /\ pkt = NoUnit

\* Stop-and-Wait on a channel with loss = corruption = delay = 0
SWLosslessInit == InitEngine({"SW"}, {FALSE}, {FALSE}, {FALSE})
SWLosslessNext ==
  \/ \E t \in ThreadIds : SW_step(t)
  \/ \E t \in ThreadIds : TransmitDeliver(t)
  \/ \E s \in ArmedSeqs : Timeout(s)
SWLosslessSpec ==
  /\ SWLosslessInit
  /\ [][SWLosslessNext]_vars
  /\ \A t \in ThreadIds : WF_vars(SW_step(t) \/ TransmitDeliver(t))
  /\ WF_vars(\E s \in ArmedSeqs : Timeout(s))

\* Go-Back-N on a channel with loss = corruption = delay = 0
GBNLosslessInit == InitEngine({"GBN"}, {FALSE}, {FALSE}, {FALSE})
GBNLosslessNext ==
  \/ \E t \in ThreadIds : GBN_step(t)
  \/ \E t \in ThreadIds : TransmitDeliver(t)
  \/ \E s \in ArmedSeqs : Timeout(s)
GBNLosslessSpec ==
  /\ GBNLosslessInit
  /\ [][GBNLosslessNext]_vars
  /\ \A t \in ThreadIds : WF_vars(GBN_step(t) \/ TransmitDeliver(t))
  /\ WF_vars(\E s \in ArmedSeqs : Timeout(s))

\* Selective-Repeat on a channel with loss = corruption = delay = 0
SRLosslessInit == InitEngine({"SR"}, {FALSE}, {FALSE}, {FALSE})
SRLosslessNext ==
  \/ \E t \in ThreadIds : SR_step(t)
  \/ \E t \in ThreadIds : TransmitDeliver(t)
  \/ \E s \in ArmedSeqs : Timeout(s)
SRLosslessSpec ==
  /\ SRLosslessInit
  /\ [][SRLosslessNext]_vars
  /\ \A t \in ThreadIds : WF_vars(SR_step(t) \/ TransmitDeliver(t))
  /\ WF_vars(\E s \in ArmedSeqs : Timeout(s))

\* no handler is running: every thread has returned
Idle == threads = <<>>

\* Any engine on any channel, in the schedules in which handlers do not
\* overlap: a timer thread starts when every earlier thread has returned.
Init == InitEngine({"SW", "GBN", "SR"}, BOOLEAN, BOOLEAN, BOOLEAN)
Next ==
  \/ \E t \in ThreadIds : start(t)
  \/ \E t \in ThreadIds : SW_send(t) \/ GBN_send(t) \/ SR_send(t)
  \/ \E t \in ThreadIds : SW_send_timer(t) \/ GBN_send_timer(t) \/ SR_send_timer(t)
  \/ \E t \in ThreadIds : SW_on_timeout(t) \/ GBN_on_timeout(t) \/ SR_on_timeout(t)
  \/ \E t \in ThreadIds : SW_timeout_timer(t) \/ GBN_timeout_timer(t) \/ SR_timeout_timer(t)
  \/ \E t \in ThreadIds : SW_receiver(t) \/ GBN_receiver(t) \/ SR_receiver(t)
  \/ \E t \in ThreadIds : SW_ack_handler(t) \/ GBN_ack_handler(t) \/ SR_ack_handler(t)
  \/ \E t \in ThreadIds : TransmitDrop(t)
  \/ \E t \in ThreadIds : TransmitDeliver(t)
  \/ \E t \in ThreadIds : TransmitDelay(t)
  \/ \E m \in BagToSet(delayed) : Idle /\ DeliverDelayed(m)
  \/ \E s \in ArmedSeqs : Idle /\ Timeout(s)
Spec == Init /\ [][Next]_vars

\* Stop-and-Wait on a channel that loses units (loss > 0, corruption = delay = 0),
\* threads overlapping.  Every thread keeps running, every armed timer expires,
\* and the channel does not lose every DATA unit, nor every ACK, for ever.
TransmitDeliverType(t, type) == TransmitDeliver(t) /\ Top(t).msg.type = type
SWLossInit == InitEngine({"SW"}, {TRUE}, {FALSE}, {FALSE})
SWLossNext ==
  \/ \E t \in ThreadIds : SW_step(t)
  \/ \E t \in ThreadIds : TransmitDrop(t)
  \/ \E t \in ThreadIds : TransmitDeliver(t)
  \/ \E s \in ArmedSeqs : Timeout(s)
SWLossSpec ==
  /\ SWLossInit
  /\ [][SWLossNext]_vars
  /\ \A t \in ThreadIds : WF_vars(SW_step(t))
  /\ WF_vars(\E s \in ArmedSeqs : Timeout(s))
  /\ SF_vars(\E t \in ThreadIds : TransmitDeliverType(t, "DATA"))
  /\ SF_vars(\E t \in ThreadIds : TransmitDeliverType(t, "ACK"))


\* One Packet, of any type, sequence and payload, that the channel corrupts
\* again and again: pkt.altered counts the corruptions of pkt.packet.
PacketInit ==
  /\ engine = "SW" /\ loss = FALSE /\ corruption = TRUE /\ delay = FALSE
  /\ total_packets = 1 /\ window_size = 1
  /\ seq_num = 0 /\ ack_received = 0 /\ sent_count = 0 /\ received_count = 0
  /\ buffer = <<>> /\ running = FALSE /\ pkts = <<>> /\ pending_packet = 0
  /\ pending_packets = <<>> /\ timer = <<>> /\ leaked = EmptyBag
  /\ delayed = EmptyBag /\ threads = <<>> /\ acked = {}
  /\ \E seq \in (1 - MaxSeq)..MaxSeq :
       \/ \E payload \in 0..MaxPayload :
            pkt = [packet |-> Packet(seq, payload, "DATA"), altered |-> 0]
       \/ pkt = [packet |-> Packet(seq, NoPayload, "ACK"), altered |-> 0]
PacketCorrupt ==
  /\ pkt.altered < ChecksumModulus - 1
  /\ pkt' = [packet |-> [pkt.packet EXCEPT !.checksum = CorruptChecksum(@)],
             altered |-> pkt.altered + 1]
  /\ UNCHANGED <<configVars, engineVars, timerVars, delayed, threads>>
PacketSpec == PacketInit /\ [][PacketCorrupt]_vars

----------------------------------------------------------------------------
(* Claims *)

\* send has reported "All packets sent": every unit the sender was to send is acknowledged
Completed == sent_count >= total_packets

IsPrefix(a, b) == Len(a) <= Len(b) /\ \A i \in 1..Len(a) : a[i] = b[i]

\* the payloads the delivered buffer holds
Delivered == {buffer[i] : i \in DOMAIN buffer}

\* the latest unit created with sequence number s is acknowledged
SeqAcked(s) ==
  /\ UnitsWithSeq(s) # {}
  /\ (CHOOSE k \in UnitsWithSeq(s) : \A j \in UnitsWithSeq(s) : j <= k) \in acked

\* C1: Stop-and-Wait on a lossless channel, any total N >= 1: the run reaches
\* completion, get_data() is then [DATA_0, ..., DATA_{N-1}] (in order, nothing
\* twice, nothing missing) and keeps that value in every later state, whatever
\* timers expire afterwards.
C1_SWLosslessDelivery ==
  /\ [](engine = "SW" => IsPrefix(get_data, Expected))
  /\ [](engine = "SW" /\ Completed => get_data = Expected)
  /\ <>(engine = "SW" /\ Completed)
\* a timer has expired after completion and three payloads are delivered
C1_Witness ==
  /\ engine = "SW" /\ total_packets = 3
  /\ sent_count > total_packets
  /\ get_data = Expected

\* C2: Go-Back-N on a lossless channel, any window W >= 1 and total N >= 1
\* (also N > W): the run reaches completion, get_data() is then
\* [DATA_0, ..., DATA_{N-1}] and keeps that value in every later state.
C2_GBNLosslessDelivery ==
  /\ [](engine = "GBN" => IsPrefix(get_data, Expected))
  /\ [](engine = "GBN" /\ Completed => get_data = Expected)
  /\ <>(engine = "GBN" /\ Completed)

\* C3: Selective-Repeat on a lossless channel, any window W >= 1 and total
\* N >= 1: the run reaches completion, get_data() is then
\* [DATA_0, ..., DATA_{N-1}] and keeps that value in every later state.
C3_SRLosslessDelivery ==
  /\ [](engine = "SR" => IsPrefix(get_data, Expected))
  /\ [](engine = "SR" /\ Completed => get_data = Expected)
  /\ <>(engine = "SR" /\ Completed)

\* C4: in Go-Back-N and in Selective-Repeat, in every reachable state, the
\* units sent whose ACK the sender has not accepted are at most window_size.
Unacknowledged == (1..Len(pkts)) \ acked
C4_WindowBound ==
  engine \in {"GBN", "SR"} => Cardinality(Unacknowledged) <= window_size

\* thread t is about to handle an uncorrupted ACK of a sequence number whose
\* unit the sender has already accepted an ACK for
AtDuplicateAck(t) ==
  /\ At(t, "receive")
  /\ Top(t).msg.type = "ACK"
  /\ ~is_corrupt(Obj(Top(t).msg))
  /\ SeqAcked(Top(t).msg.seq)
ack_handler(t) == SW_ack_handler(t) \/ GBN_ack_handler(t) \/ SR_ack_handler(t)

\* C5: in every engine, the handling of a duplicate ACK leaves sent_count and
\* the next send sequence as they are, and does not call send: no data unit
\* is created or transmitted.
C5_DuplicateAckIgnored ==
  [][\A t \in ThreadIds :
       AtDuplicateAck(t) /\ ack_handler(t) =>
         /\ sent_count' = sent_count
         /\ seq_num' = seq_num
         /\ pkts' = pkts
         /\ Return(t)]_vars

\* thread t is about to run _on_timeout for a unit whose ACK the sender has
\* accepted: the pending unit of Stop-and-Wait, the unit with the timer's
\* sequence number in the windowed engines
AtStaleTimeout(t) ==
  /\ At(t, "on_timeout")
  /\ IF engine = "SW" THEN pending_packet \in acked ELSE SeqAcked(Top(t).i)
on_timeout(t) == SW_on_timeout(t) \/ GBN_on_timeout(t) \/ SR_on_timeout(t)

\* C6: in every engine, a timeout for a unit whose ACK the sender has accepted
\* transmits nothing, arms no timer and changes no state of the engine.
C6_StaleTimeoutNoOp ==
  [][\A t \in ThreadIds :
       AtStaleTimeout(t) /\ on_timeout(t) =>
         /\ Return(t)
         /\ UNCHANGED <<engineVars, timerVars, delayed>>]_vars

\* thread t is about to receive a DATA unit that _on_timeout transmitted after
\* the sender had accepted its ACK, and whose payload is delivered already
AtStaleRetransmission(t) ==
  /\ At(t, "receive")
  /\ Top(t).msg.type = "DATA"
  /\ Top(t).msg.stale
  /\ Obj(Top(t).msg).payload \in Delivered
receiver(t) == SW_receiver(t) \/ GBN_receiver(t) \/ SR_receiver(t)

\* C7: in every engine, under any loss, delay and order of events, a unit that
\* a stale timer retransmits does not get its payload into the delivered
\* buffer a second time.
C7_IdempotentRetransmission ==
  [][\A t \in ThreadIds :
       AtStaleRetransmission(t) /\ receiver(t) =>
         /\ buffer' = buffer
         /\ received_count' = received_count]_vars

\* send creates a unit only while sent_count < total_packets, and sent_count
\* never decreases: a sender that is complete before it has created every
\* payload never creates the rest
NeverCreated == Completed /\ Len(pkts) < total_packets
AllDelivered == \A k \in 0..(total_packets - 1) : k \in Delivered

\* C8: Stop-and-Wait with corruption = delay = 0 on a channel that loses units
\* but not all of them for ever, every armed timer expiring: eventually
\* get_data() holds all of DATA_0 .. DATA_{N-1}; so no state is reached from
\* which a payload can no longer be created.
C8_SWLossLiveness ==
  /\ [](engine = "SW" => ~NeverCreated)
  /\ <>(engine = "SW" /\ AllDelivered)

\* C9: Stop-and-Wait without corruption, under any loss, any delay (a unit sent
\* later may arrive before a delayed one) and any order of timeouts: in every
\* reachable state get_data() is a prefix of [DATA_0, ..., DATA_{N-1}].
C9_SWReorderingSafe ==
  engine = "SW" /\ ~corruption => IsPrefix(get_data, Expected)

\* C10: for every unit (DATA or ACK, any sequence and payload): is_corrupt() is
\* true when the channel has altered the stored checksum k times, 1 <= k < 256,
\* and false when it never has.
C10_IntegrityDetection ==
  pkt.altered \in 0..(ChecksumModulus - 1) =>
    (is_corrupt(pkt.packet) <=> pkt.altered >= 1)
\* a DATA unit and an ACK, each altered 255 times, are corrupt
C10_Witness ==
  /\ pkt.altered = ChecksumModulus - 1
  /\ pkt.packet.seq < 0
  /\ pkt.packet.type = "ACK"
  /\ is_corrupt(pkt.packet)

\* thread t, which has just taken a step, is about to transmit a DATA unit
\* that Unacknowledged held before the step
TransmitsOutstanding(t) ==
  /\ Len(threads') = Len(threads)
  /\ Head(threads'[t]).op = "transmit"
  /\ Head(threads'[t]).msg.type = "DATA"
  /\ Head(threads'[t]).msg.id \in Unacknowledged

\* C11: in Go-Back-N, a timeout that finds units sent and not acknowledged
\* retransmits them: _on_timeout goes on to transmit one of them (and, after
\* it, the others, arming a timer for each).
C11_GBNBatchRetransmission ==
  [][\A t \in ThreadIds :
       /\ engine = "GBN"
       /\ Unacknowledged # {}
       /\ GBN_on_timeout(t)
       => TransmitsOutstanding(t)]_vars

\* the units in flight that carry sequence number s
InFlightWithSeq(s) == {id \in Unacknowledged : pkts[id].seq = s}

\* C12: in Selective-Repeat, a timeout for a sequence number S that a unit in
\* flight carries transmits that unit, once, and then arms the timer of S and
\* no other; the handler itself changes nothing else of the sender.
C12_SRPerUnitRetransmission ==
  /\ [][\A t \in ThreadIds :
          /\ engine = "SR"
          /\ SR_on_timeout(t)
          /\ InFlightWithSeq(Top(t).i) # {}
          => /\ Len(threads') = Len(threads)
             /\ Head(threads'[t]).op = "transmit"
             /\ Head(threads'[t]).msg.id \in InFlightWithSeq(Top(t).i)
             /\ threads'[t][2].op = "timeout_timer"
             /\ UNCHANGED <<engineVars, timerVars>>]_vars
  /\ [][\A t \in ThreadIds :
          /\ engine = "SR"
          /\ SR_timeout_timer(t)
          => /\ Return(t)
             /\ Top(t).i \in DOMAIN timer' /\ timer'[Top(t).i] = "Armed"
             /\ \A k \in (DOMAIN timer \cup DOMAIN timer') \ {Top(t).i} :
                  k \in DOMAIN timer /\ k \in DOMAIN timer' /\ timer'[k] = timer[k]
             /\ UNCHANGED engineVars]_vars

\* C13: in Go-Back-N and in Selective-Repeat, in every reachable state, no two
\* units that send has created carry the same sequence number, and no two
\* carry the same payload.
C13_NoResending ==
  engine \in {"GBN", "SR"} =>
    \A i, j \in 1..Len(pkts) :
      i # j => pkts[i].seq # pkts[j].seq /\ pkts[i].payload # pkts[j].payload

\* the sequence number the receiver expects: self.seq_num in Stop-and-Wait,
\* self.ack_received in the windowed engines
ExpectedSeq == IF engine = "SW" THEN seq_num ELSE ack_received

\* C14: in every engine, the buffer changes only when the receiver handles a
\* DATA unit.  An uncorrupted unit that carries the expected sequence number
\* puts its payload at received_count, and received_count and the expected
\* sequence number advance by one step; any other DATA unit leaves all three
\* as they are.  Either way the receiver goes on to transmit one ACK, which
\* carries the unit's sequence number if the unit is uncorrupted.
C14_StrictInOrderAcceptance ==
  /\ [][buffer' # buffer \/ received_count' # received_count
          => \E t \in ThreadIds : receiver(t)]_vars
  /\ [][\A t \in ThreadIds :
          receiver(t) =>
            LET p == Obj(Top(t).msg) IN
            /\ IF ~is_corrupt(p) /\ p.seq = ExpectedSeq
               THEN /\ received_count \notin DOMAIN buffer
                    /\ DOMAIN buffer' = DOMAIN buffer \cup {received_count}
                    /\ buffer'[received_count] = p.payload
                    /\ \A k \in DOMAIN buffer : buffer'[k] = buffer[k]
                    /\ received_count' = received_count + 1
                    /\ ExpectedSeq' = IF engine = "SW" THEN 1 - ExpectedSeq
                                      ELSE ExpectedSeq + 1
               ELSE UNCHANGED <<buffer, received_count, ExpectedSeq>>
            /\ Len(threads') = Len(threads)
            /\ Len(threads'[t]) = Len(threads[t])
            /\ Tail(threads'[t]) = Rest(t)
            /\ Head(threads'[t]).op = "transmit"
            /\ Head(threads'[t]).msg.type = "ACK"
            /\ ~is_corrupt(p) => Head(threads'[t]).msg.seq = p.seq]_vars
\* a windowed receiver that has accepted two units answers a unit it does not
\* accept
C14_Witness ==
  /\ engine \in {"GBN", "SR"}
  /\ received_count = 2
  /\ \E t \in 1..Len(threads) :
       /\ Top(t).op = "transmit"
       /\ Top(t).msg.type = "ACK"
       /\ Top(t).msg.seq # ack_received - 1

\* C15: in every reachable state every armed timer is the one its engine
\* tracks (Stop-and-Wait has at most one, the windowed engines at most one for
\* a sequence number) and stands for a unit sent and not acknowledged.
C15_TimerBookkeeping ==
  /\ leaked = EmptyBag
  /\ IF engine = "SW"
     THEN ArmedCount <= 1 /\ (ArmedCount = 1 => pending_packet \in Unacknowledged)
     ELSE \A s \in ArmedSeqs : InFlightWithSeq(s) # {} /\ ~SeqAcked(s)

\* C19: in every engine, in every reachable state, the sender has counted at
\* most as many ACKs (sent_count) as the receiver has accepted units
\* (received_count).
C19_SenderNotAhead == sent_count <= received_count

\* no timer is armed, no handler is running and no delivery is pending
Quiescent == ArmedCount = 0 /\ threads = <<>> /\ delayed = EmptyBag

\* C16: once sent_count has reached total_packets, the engine creates no data
\* unit and arms no timer (those armed expire or are cancelled), and the run
\* comes to rest: from some state on no timer is armed and nothing is
\* transmitted.
C16_Termination ==
  /\ [][Completed => pkts' = pkts]_vars
  /\ [][Completed => ArmedCount' <= ArmedCount]_vars
  /\ [](Completed => <>[]Quiescent)

\* thread t has entered a handler and has not left it: it is past the first
\* frame of its callback
InHandler(t) ==
  \/ Len(threads[t]) >= 2
  \/ Top(t).op \notin {"start", "on_timeout", "receive"}

\* C17: the handlers of one engine exclude each other: in every reachable
\* state at most one thread is inside a handler, so that no two of them
\* interleave their reads and writes of the engine's state.
C17_SerializedHandlers ==
  Cardinality({t \in 1..Len(threads) : InHandler(t)}) <= 1

\* thread t is in _on_timeout and about to hand the channel a DATA unit
AtRetransmission(t) ==
  /\ At(t, "transmit")
  /\ Top(t).msg.type = "DATA"
  /\ Len(threads[t]) >= 2
  /\ threads[t][2].op = "timeout_timer"

\* C18: in Stop-and-Wait with loss = delay = 0, a retransmission that the
\* channel delivers without corrupting it reaches the receiver uncorrupted,
\* whatever the channel did to earlier transmissions of the unit.
C18_CorruptionRecovery ==
  [][\A t \in ThreadIds :
       /\ engine = "SW" /\ ~loss /\ ~delay
       /\ AtRetransmission(t)
       /\ TransmitDeliver(t)
       /\ pkts' = pkts
       => ~is_corrupt(pkts'[Top(t).msg.id])]_vars

\* C20: in every engine, when the sender handles the ACK that the receiver sent
\* in answer to a corrupt DATA unit, it takes it for the acknowledgment of no
\* unit whose payload the receiver has not delivered.
C20_CorruptNotMistaken ==
  [][\A t \in ThreadIds :
       /\ At(t, "receive")
       /\ Top(t).msg.nak
       /\ ack_handler(t)
       => \A id \in acked' \ acked : pkts[id].payload \in Delivered]_vars

====
